---- MODULE Spec2Model ----
(***************************************************************************)
(* serde_duration: the serialize / deserialize hooks that convert between  *)
(* std::time::Duration and the texts "<n>s", "<n>m", "<n>h".               *)
(*                                                                         *)
(* A u64 is kept at its full width, as four 16-bit limbs, least            *)
(* significant first, so that the arithmetic of the code (parse, multiply, *)
(* divide, format) is carried out on the real 64-bit values.               *)
(* A text is a sequence of characters (one-character strings).             *)
(***************************************************************************)
EXTENDS Naturals, Sequences, FiniteSets, TLC

VARIABLES overflow_checks, written, read, rewritten

vars == <<overflow_checks, written, read, rewritten>>

(***************************************************************************)
(* Bounds of the checked inputs.                                           *)
(***************************************************************************)
MaxLen == 3
MaxSmall == 130
MaxUnits == 3
Delta == 2

(***************************************************************************)
(* u64 arithmetic.                                                         *)
(***************************************************************************)
Base == 2 ^ 16

u64_ZERO == <<0, 0, 0, 0>>

u64_MAX == <<Base - 1, Base - 1, Base - 1, Base - 1>>

\* a small literal (below 2^31) as a u64
FromNat(n) == <<n % Base, (n \div Base) % Base, 0, 0>>

\* limbs * m + c for m, c below 2^15: one limb longer than limbs, the last
\* limb being what does not fit
RECURSIVE MulAdd(_, _, _)
MulAdd(limbs, m, c) ==
    IF limbs = <<>>
    THEN <<c>>
    ELSE LET t == Head(limbs) * m + c
         IN  <<t % Base>> \o MulAdd(Tail(limbs), m, t \div Base)

\* limbs - d for d at most the value of limbs, d below 2^16
RECURSIVE SubSmall(_, _)
SubSmall(limbs, d) ==
    IF limbs = <<>> \/ d = 0
    THEN limbs
    ELSE IF Head(limbs) >= d
         THEN <<Head(limbs) - d>> \o Tail(limbs)
         ELSE <<Head(limbs) + Base - d>> \o SubSmall(Tail(limbs), 1)

\* quotient and remainder of limbs by m, 0 < m < 2^15
RECURSIVE DivRem(_, _)
DivRem(limbs, m) ==
    IF limbs = <<>>
    THEN [q |-> <<>>, r |-> 0]
    ELSE LET hi == DivRem(Tail(limbs), m)
             t  == hi.r * Base + Head(limbs)
         IN  [q |-> <<t \div m>> \o hi.q, r |-> t % m]

\* a >= n for a u64 a and a literal n below 2^16
GeSmall(a, n) == a[4] # 0 \/ a[3] # 0 \/ a[2] # 0 \/ a[1] >= n

checked_mul(a, m) ==
    LET r == MulAdd(a, m, 0)
    IN  IF r[5] = 0 THEN [kind |-> "Some", value |-> SubSeq(r, 1, 4)]
                    ELSE [kind |-> "None"]

checked_add(a, d) ==
    LET r == MulAdd(a, 1, d)
    IN  IF r[5] = 0 THEN [kind |-> "Some", value |-> SubSeq(r, 1, 4)]
                    ELSE [kind |-> "None"]

\* the `*` of two u64 of which the left one is a unit multiplier (one limb):
\* with overflow checks the build panics on overflow, without it wraps
u64_mul(a, b) ==
    LET r == MulAdd(b, a[1], 0)
    IN  IF r[5] = 0 \/ ~overflow_checks
        THEN [kind |-> "Value", value |-> SubSeq(r, 1, 4)]
        ELSE [kind |-> "Panic"]

(***************************************************************************)
(* Characters, u64 parsing and formatting.                                 *)
(***************************************************************************)
Digits == <<"0", "1", "2", "3", "4", "5", "6", "7", "8", "9">>

is_digit(c) == \E i \in 1..10 : Digits[i] = c

to_digit(c) == (CHOOSE i \in 1..10 : Digits[i] = c) - 1

\* the digits of str::parse::<u64>, scanned left to right from acc
RECURSIVE parse_digits(_, _)
parse_digits(digits, acc) ==
    IF digits = <<>>
    THEN [kind |-> "Ok", value |-> acc]
    ELSE IF ~is_digit(Head(digits))
    THEN [kind |-> "Err", error |-> "InvalidDigit"]
    ELSE LET mul == checked_mul(acc, 10)
         IN  IF mul.kind = "None"
             THEN [kind |-> "Err", error |-> "PosOverflow"]
             ELSE LET add == checked_add(mul.value, to_digit(Head(digits)))
                  IN  IF add.kind = "None"
                      THEN [kind |-> "Err", error |-> "PosOverflow"]
                      ELSE parse_digits(Tail(digits), add.value)

\* str::parse::<u64>: an optional leading '+', then decimal digits
parse_u64(src) ==
    IF src = <<>>
    THEN [kind |-> "Err", error |-> "Empty"]
    ELSE IF src = <<"+">> \/ src = <<"-">>
    THEN [kind |-> "Err", error |-> "InvalidDigit"]
    ELSE IF Head(src) = "+"
    THEN parse_digits(Tail(src), u64_ZERO)
    ELSE parse_digits(src, u64_ZERO)

\* the Display of a u64: its decimal digits, no leading zero
RECURSIVE fmt_u64(_)
fmt_u64(n) ==
    LET d == DivRem(n, 10)
    IN  IF d.q = u64_ZERO
        THEN <<Digits[d.r + 1]>>
        ELSE fmt_u64(d.q) \o <<Digits[d.r + 1]>>

(***************************************************************************)
(* std::time::Duration: whole seconds and the nanoseconds below a second.  *)
(***************************************************************************)
from_secs(secs) == [secs |-> secs, nanos |-> 0]

as_secs(duration) == duration.secs

(***************************************************************************)
(* The crate.                                                              *)
(***************************************************************************)
InvalidDurationError == "Invalid duration format"

last_char(s) == IF s = <<>> THEN "" ELSE s[Len(s)]

\* multiplier_of with the minutes arm giving one second
multiplier_of_minutes_as_seconds(last) ==
    IF last = "s" THEN [kind |-> "Some", duration |-> from_secs(FromNat(1))]
    ELSE IF last = "m" THEN [kind |-> "Some", duration |-> from_secs(FromNat(1))]
    ELSE IF last = "h" THEN [kind |-> "Some", duration |-> from_secs(FromNat(3600))]
    ELSE [kind |-> "None"]

\* multiplier_of with the hours arm giving sixty seconds
multiplier_of_hours_as_minutes(last) ==
    IF last = "s" THEN [kind |-> "Some", duration |-> from_secs(FromNat(1))]
    ELSE IF last = "m" THEN [kind |-> "Some", duration |-> from_secs(FromNat(60))]
    ELSE IF last = "h" THEN [kind |-> "Some", duration |-> from_secs(FromNat(60))]
    ELSE [kind |-> "None"]

\* multiplier_of with a default arm of one second in place of the return
multiplier_of_default_seconds(last) ==
    IF last = "m" THEN [kind |-> "Some", duration |-> from_secs(FromNat(60))]
    ELSE IF last = "h" THEN [kind |-> "Some", duration |-> from_secs(FromNat(3600))]
    ELSE [kind |-> "Some", duration |-> from_secs(FromNat(1))]

\* the match on s.chars().last()
multiplier_of(last) ==
    IF last = "s" THEN [kind |-> "Some", duration |-> from_secs(FromNat(1))]
    ELSE IF last = "m" THEN [kind |-> "Some", duration |-> from_secs(FromNat(60))]
    ELSE IF last = "h" THEN [kind |-> "Some", duration |-> from_secs(FromNat(3600))]
    ELSE [kind |-> "None"]

\* numeric_part cut one character short
numeric_part_short(s) == SubSeq(s, 1, Len(s) - 2)

\* s[..s.len() - 1]
numeric_part(s) == SubSeq(s, 1, Len(s) - 1)

str_to_duration(s) ==
    LET multiplier == multiplier_of(last_char(s))
    IN  IF multiplier.kind = "None"
        THEN [kind |-> "OkNone"]
        ELSE LET value == parse_u64(numeric_part(s))
             IN  IF value.kind = "Err"
                 THEN [kind |-> "Err", error |-> InvalidDurationError]
                 ELSE LET secs == u64_mul(as_secs(multiplier.duration), value.value)
                      IN  IF secs.kind = "Panic"
                          THEN [kind |-> "Panic"]
                          ELSE [kind |-> "OkSome",
                                duration |-> from_secs(secs.value)]

\* duration_to_str with > for >= in the hours test
duration_to_str_hours_gt(duration) ==
    LET seconds == as_secs(duration)
    IN  IF GeSmall(seconds, 3601)
        THEN fmt_u64(DivRem(seconds, 3600).q) \o <<"h">>
        ELSE IF GeSmall(seconds, 60)
        THEN fmt_u64(DivRem(seconds, 60).q) \o <<"m">>
        ELSE fmt_u64(seconds) \o <<"s">>

\* duration_to_str with > for >= in the minutes test
duration_to_str_minutes_gt(duration) ==
    LET seconds == as_secs(duration)
    IN  IF GeSmall(seconds, 3600)
        THEN fmt_u64(DivRem(seconds, 3600).q) \o <<"h">>
        ELSE IF GeSmall(seconds, 61)
        THEN fmt_u64(DivRem(seconds, 60).q) \o <<"m">>
        ELSE fmt_u64(seconds) \o <<"s">>

\* duration_to_str with the hours arm dividing by 60
duration_to_str_hours_by_60(duration) ==
    LET seconds == as_secs(duration)
    IN  IF GeSmall(seconds, 3600)
        THEN fmt_u64(DivRem(seconds, 60).q) \o <<"h">>
        ELSE IF GeSmall(seconds, 60)
        THEN fmt_u64(DivRem(seconds, 60).q) \o <<"m">>
        ELSE fmt_u64(seconds) \o <<"s">>

duration_to_str(duration) ==
    LET seconds == as_secs(duration)
    IN  IF GeSmall(seconds, 3600)
        THEN fmt_u64(DivRem(seconds, 3600).q) \o <<"h">>
        ELSE IF GeSmall(seconds, 60)
        THEN fmt_u64(DivRem(seconds, 60).q) \o <<"m">>
        ELSE fmt_u64(seconds) \o <<"s">>

\* serializer.serialize_str: the framework writes the text or fails
serialize(duration, serializer) ==
    IF serializer.accepts
    THEN [kind |-> "Ok", text |-> duration_to_str(duration)]
    ELSE [kind |-> "Err", error |-> [origin |-> "framework", msg |-> "write failed"]]

custom(msg) == [kind |-> "Err", error |-> [origin |-> "custom", msg |-> msg]]

\* yield is what String::deserialize(deserializer) gives
deserialize(yield) ==
    IF yield.kind = "Err"
    THEN [kind |-> "Err", error |-> yield.error]
    ELSE LET r == str_to_duration(yield.s)
         IN  IF r.kind = "OkSome" THEN [kind |-> "Ok", duration |-> r.duration]
             ELSE IF r.kind = "OkNone" THEN custom("invalid duration format")
             ELSE IF r.kind = "Err" THEN custom(r.error)
             ELSE [kind |-> "Panic"]

(***************************************************************************)
(* Inputs.                                                                 *)
(***************************************************************************)
Alphabet ==
    {"0", "1", "2", "5", "6", "9"} \cup {"+", "-", ".", " ", "x", "s", "m", "h"}

Units == {"s", "m", "h"}

RECURSIVE TextsOfLen(_)
TextsOfLen(n) ==
    IF n = 0 THEN {<<>>}
    ELSE {<<c>> \o t : c \in Alphabet, t \in TextsOfLen(n - 1)}

ShortTexts == UNION {TextsOfLen(n) : n \in 0..MaxLen}

\* the largest counts of hours and of minutes that fit a u64 of seconds
MaxHours == DivRem(u64_MAX, 3600).q

MaxMinutes == DivRem(u64_MAX, 60).q

\* the values of the crate's tests and documentation
Examples == {5, 30, 300, 1200, 1234, 3661, 10800, 72000}

SmallSecs ==
    (0..MaxSmall) \cup Examples
    \cup {u * k + d - Delta : u \in {60, 3600}, k \in 1..MaxUnits, d \in 0..(2 * Delta)}

Around(a) ==
    {SubSmall(a, d) : d \in 0..Delta}
    \cup {checked_add(a, d).value : d \in {e \in 0..Delta : checked_add(a, e).kind = "Some"}}

BigSecs ==
    Around(u64_MAX) \cup Around(MaxHours) \cup Around(MaxMinutes)
    \cup Around(MulAdd(MaxHours, 3600, 0)) \cup Around(FromNat(Base))
    \cup Around(<<0, 0, 1, 0>>)

SecsSamples == {FromNat(n) : n \in SmallSecs} \cup {SubSeq(b, 1, 4) : b \in BigSecs}

Durations == {[secs |-> s, nanos |-> n] : s \in SecsSamples, n \in {0, 999999999}}

\* decimal texts that denote 2^64 and more
TooBig ==
    LET max == fmt_u64(u64_MAX)
    IN  {SubSeq(max, 1, Len(max) - 1) \o <<"6">>, max \o <<"0">>, <<"7">> \o max}

NumberTexts ==
    {fmt_u64(v) : v \in SecsSamples} \cup TooBig

LongTexts ==
    {p \o n \o <<u>> : p \in {<<>>, <<"+">>, <<"-">>, <<"0">>, <<"0", "0", "0", "0", "0">>},
                      n \in NumberTexts, u \in Units \cup {"x"}}

Texts == ShortTexts \cup LongTexts

FrameworkErrors == {[origin |-> "framework", msg |-> "expected a string"]}

Yields ==
    {[kind |-> "Ok", s |-> t] : t \in Texts}
    \cup {[kind |-> "Err", error |-> e] : e \in FrameworkErrors}

Serializers == {[accepts |-> TRUE], [accepts |-> FALSE]}

(***************************************************************************)
(* The hooks as the framework calls them.  The hooks keep no state, so a   *)
(* behaviour is one call on a fresh input, possibly followed by the        *)
(* framework feeding the written text back and writing the result again.   *)
(***************************************************************************)
NoCall == [kind |-> "NoCall"]

\* a call of deserialize, with what str_to_duration gave it (if called)
ReadCall(yield) ==
    [kind |-> "Call", yield |-> yield,
     parsed |-> IF yield.kind = "Ok" THEN str_to_duration(yield.s)
                ELSE [kind |-> "NotCalled"],
     result |-> deserialize(yield)]

Init ==
    /\ overflow_checks \in BOOLEAN
    /\ written = NoCall
    /\ read = NoCall
    /\ rewritten = NoCall

\* the framework serializes a field
Serialize ==
    /\ written = NoCall
    /\ read = NoCall
    /\ \E duration \in Durations, serializer \in Serializers :
           written' = [kind |-> "Call", duration |-> duration,
                       serializer |-> serializer,
                       result |-> serialize(duration, serializer)]
    /\ read' = NoCall
    /\ rewritten' = NoCall
    /\ UNCHANGED overflow_checks

\* the framework deserializes a field of some document
Deserialize ==
    /\ written = NoCall
    /\ read = NoCall
    /\ \E yield \in Yields : read' = ReadCall(yield)
    /\ written' = NoCall
    /\ rewritten' = NoCall
    /\ UNCHANGED overflow_checks

\* the framework deserializes the field it has just written
ReadBack ==
    /\ written.kind = "Call"
    /\ written.result.kind = "Ok"
    /\ read = NoCall
    /\ LET yield == [kind |-> "Ok", s |-> written.result.text]
       IN  read' = ReadCall(yield)
    /\ UNCHANGED <<overflow_checks, written, rewritten>>

\* the framework serializes the field it has just read back
WriteBack ==
    /\ written.kind = "Call"
    /\ read.kind = "Call"
    /\ read.result.kind = "Ok"
    /\ rewritten = NoCall
    /\ rewritten' = [kind |-> "Call", duration |-> read.result.duration,
                     serializer |-> [accepts |-> TRUE],
                     result |-> serialize(read.result.duration, [accepts |-> TRUE])]
    /\ UNCHANGED <<overflow_checks, written, read>>

Next ==
    \/ Serialize
    \/ Deserialize
    \/ ReadBack
    \/ WriteBack

Spec == Init /\ [][Next]_vars

(***************************************************************************)
(* Numbers as the properties read them: naturals of any size, as limbs     *)
(* with leading zero limbs of no account.                                  *)
(***************************************************************************)
Front(x) == SubSeq(x, 1, Len(x) - 1)

RECURSIVE Norm(_)
Norm(x) == IF x = <<>> \/ x[Len(x)] # 0 THEN x ELSE Norm(Front(x))

RECURSIVE TopLess(_, _)
TopLess(a, b) ==
    IF a = <<>> THEN FALSE
    ELSE \/ a[Len(a)] < b[Len(b)]
         \/ a[Len(a)] = b[Len(b)] /\ TopLess(Front(a), Front(b))

Less(x, y) ==
    LET a == Norm(x)
        b == Norm(y)
    IN  Len(a) < Len(b) \/ (Len(a) = Len(b) /\ TopLess(a, b))

Same(x, y) == Norm(x) = Norm(y)

FitsU64(x) == Len(Norm(x)) <= 4

IsDigits(p) == p # <<>> /\ \A i \in 1..Len(p) : \E j \in 1..10 : p[i] = Digits[j]

\* a decimal numeral with no leading zero
IsNumeral(p) == IsDigits(p) /\ (p[1] = "0" => Len(p) = 1)

\* the number a string of decimal digits denotes
RECURSIVE DecVal(_)
DecVal(p) ==
    IF p = <<>> THEN <<>>
    ELSE MulAdd(DecVal(Front(p)), 10, to_digit(p[Len(p)]))

UnitSecs(u) == CASE u = "s" -> 1 [] u = "m" -> 60 [] u = "h" -> 3600

\* the unit the tier rule chooses for a count of seconds
Tier(v) ==
    IF ~Less(v, <<3600>>) THEN "h" ELSE IF ~Less(v, <<60>>) THEN "m" ELSE "s"

\* text is the numeral of floor(v / unit) followed by the unit
IsQuotientText(text, v, u) ==
    /\ text # <<>>
    /\ text[Len(text)] = u
    /\ IsNumeral(Front(text))
    /\ LET q == DecVal(Front(text))
       IN  /\ ~Less(v, MulAdd(q, UnitSecs(u), 0))
           /\ Less(v, MulAdd(q, UnitSecs(u), UnitSecs(u)))

Wrote == written.kind = "Call"

Read == read.kind = "Call"

ReadText == Read /\ read.yield.kind = "Ok"

\* the text read is <prefix><unit> with a recognized unit
Recognized == ReadText /\ read.yield.s # <<>> /\ last_char(read.yield.s) \in Units

\* the text read is <digits><unit>, the digits denoting a number below 2^64
WellFormed ==
    /\ Recognized
    /\ IsDigits(Front(read.yield.s))
    /\ FitsU64(DecVal(Front(read.yield.s)))

\* the seconds a well-formed text denotes, of any size
Denoted == MulAdd(DecVal(Front(read.yield.s)), UnitSecs(last_char(read.yield.s)), 0)

\* C1: serialize writes the numeral of floor(n / 3600) and 'h' when
\* n >= 3600, else of floor(n / 60) and 'm' when n >= 60, else of n and 's',
\* for every duration of n whole seconds, and fails only when the
\* serializer does
EncodeTiers ==
    Wrote =>
        /\ written.result.kind = "Err" <=> ~written.serializer.accepts
        /\ written.result.kind = "Ok" =>
               IsQuotientText(written.result.text, as_secs(written.duration),
                              Tier(as_secs(written.duration)))

EncodeTiersWitness ==
    /\ Wrote
    /\ written.duration = [secs |-> FromNat(1200), nanos |-> 999999999]
    /\ written.result = [kind |-> "Ok", text |-> <<"2", "0", "m">>]

\* C2: a text <digits><unit> whose number k and product k * multiplier fit
\* 64 bits deserializes to exactly k * multiplier whole seconds
DecodeValue ==
    (WellFormed /\ FitsU64(Denoted)) =>
        /\ read.result.kind = "Ok"
        /\ Same(as_secs(read.result.duration), Denoted)
        /\ read.result.duration.nanos = 0

DecodeValueWitness ==
    /\ WellFormed
    /\ read.yield.s = <<"0", "7", "h">>
    /\ read.result = [kind |-> "Ok", duration |-> from_secs(FromNat(25200))]

\* C3: when the number of a text <digits><unit> fits 64 bits and its
\* product with the multiplier does not, deserialize returns no duration
OverflowFails ==
    (WellFormed /\ ~FitsU64(Denoted)) => read.result.kind # "Ok"

\* C4: a text with a recognized unit whose prefix is empty, holds a
\* character that is no decimal digit, or denotes 2^64 or more fails with
\* InvalidDurationError
MalformedNumberFails ==
    (Recognized /\ ~WellFormed) =>
        /\ read.parsed = [kind |-> "Err", error |-> InvalidDurationError]
        /\ read.result = custom(InvalidDurationError)

\* C5: exactly the texts that are empty or end in no unit get Ok(None) from
\* str_to_duration, which deserialize turns into a failure that is not the
\* malformed-number failure
UnrecognizedUnit ==
    ReadText =>
        /\ read.parsed.kind = "OkNone" <=> ~Recognized
        /\ ~Recognized =>
               /\ read.result.kind = "Err"
               /\ read.result = custom("invalid duration format")
               /\ read.result # custom(InvalidDurationError)

UnrecognizedUnitWitness ==
    /\ ReadText
    /\ read.yield.s = <<"1", "0", "x">>
    /\ read.parsed.kind = "OkNone"
    /\ read.result.kind = "Err"

\* the seconds first written were a whole number of the tier's unit
ExactUnits ==
    DivRem(as_secs(written.duration), UnitSecs(Tier(as_secs(written.duration)))).r = 0

\* C6: a count of seconds that is a whole number of its tier's unit is
\* read back unchanged
RoundTripExact ==
    (Wrote /\ Read /\ ExactUnits) =>
        /\ read.result.kind = "Ok"
        /\ as_secs(read.result.duration) = as_secs(written.duration)

RoundTripExactWitness ==
    /\ Wrote
    /\ Read
    /\ as_secs(written.duration) = FromNat(7200)
    /\ read.yield.s = <<"2", "h">>
    /\ read.result = [kind |-> "Ok", duration |-> from_secs(FromNat(7200))]

\* the text written is the numeral of seconds / 3600 followed by 'h'
IsHoursText ==
    /\ written.result.kind = "Ok"
    /\ Front(written.result.text) # <<>>
    /\ last_char(written.result.text) = "h"
    /\ IsNumeral(Front(written.result.text))
    /\ Same(MulAdd(DecVal(Front(written.result.text)), 3600, 0),
            as_secs(written.duration))

WholeHours == DivRem(as_secs(written.duration), 3600).r = 0

\* C7 as stated: every v * 3600 seconds, v >= 0, is written as <v>h
EncodeWholeHoursFromZero ==
    (Wrote /\ written.serializer.accepts /\ WholeHours) => IsHoursText

\* C7: every v * 3600 seconds, v >= 1, is written as <v>h
EncodeWholeHours ==
    (Wrote /\ written.serializer.accepts /\ WholeHours
           /\ as_secs(written.duration) # u64_ZERO) => IsHoursText

EncodeWholeHoursWitness ==
    /\ Wrote
    /\ Same(as_secs(written.duration), MulAdd(MaxHours, 3600, 0))
    /\ IsHoursText

\* C8: deserialize returns a duration exactly when the framework yields a
\* string and str_to_duration returns Ok(Some(d)), and then d; otherwise it
\* returns a failure, the framework's own unchanged
DeserializePropagates ==
    Read =>
        /\ read.result.kind = "Ok" <=> read.parsed.kind = "OkSome"
        /\ read.result.kind = "Ok" => read.result.duration = read.parsed.duration
        /\ read.result.kind # "Ok" => read.result.kind = "Err"
        /\ read.yield.kind = "Err" => read.result = read.yield

\* C9: what is read back is the count written less its remainder by the
\* tier's unit, and reading back never fails
RoundTripTruncates ==
    (Wrote /\ Read) =>
        /\ read.result.kind = "Ok"
        /\ LET v == as_secs(written.duration)
           IN  as_secs(read.result.duration)
                   = SubSmall(v, DivRem(v, UnitSecs(Tier(v))).r)

RoundTripTruncatesWitness ==
    /\ Wrote
    /\ Read
    /\ as_secs(written.duration) = FromNat(3661)
    /\ written.result.text = <<"1", "h">>
    /\ read.result = [kind |-> "Ok", duration |-> from_secs(FromNat(3600))]

\* C10: writing what was read back gives the text first written
EncodeIdempotent ==
    rewritten.kind = "Call" => rewritten.result = written.result

EncodeIdempotentWitness ==
    /\ rewritten.kind = "Call"
    /\ as_secs(written.duration) = FromNat(3661)
    /\ as_secs(rewritten.duration) = FromNat(3600)
    /\ rewritten.result.text = <<"1", "h">>

====
